---- MODULE Spec2Model ----
(***************************************************************************)
(* pypaca REST client: credential validation at construction and the       *)
(* retry-aware dispatch loop (RestClient._request / _one_request), with    *)
(* the error construction of APIError.                                     *)
(***************************************************************************)
EXTENDS Integers, Sequences, FiniteSets, TLC

VARIABLES env, ctor, client, settings, call, other, err, pag

vars == <<env, ctor, client, settings, call, other, err, pag>>

(***************************************************************************)
(* Bounds of the model.                                                    *)
(***************************************************************************)
\* Largest retry_attempts a client is constructed with.
MaxRetry == 3

\* Python's None.
None == "None"

(***************************************************************************)
(* Credentials: rest.py _validate_credentials, credentials.py Credentials  *)
(***************************************************************************)
\* Values a str | None argument or environment entry takes: absent, the
\* empty string, a non-empty string.
ApiKeyValues == {None, "", "test"}
SecretKeyValues == {None, "", "secret"}
OAuthTokenValues == {None, "", "token"}

\* Python truthiness of a str | None value (if api_key, not oauth_token).
Truthy(v) == v # None /\ v # ""

\* The messages of the ValueErrors, as word sequences.
MsgNoAuth ==
    <<"You", "must", "supply", "a", "method", "of", "authentication">>
MsgNotBoth ==
    <<"Either", "an", "oauth_token", "or", "an", "api_key", "may", "be",
      "supplied,", "but", "not", "both">>
MsgNoSecret ==
    <<"A", "corresponding", "secret_key", "must", "be", "supplied", "with",
      "the", "api_key">>

ValueError(msg) == [raised |-> TRUE, type |-> "ValueError", msg |-> msg]
Returned(v) == [raised |-> FALSE, value |-> v]

\* The three checks shared by RestClient._validate_credentials and
\* Credentials.validate_credentials, in the order of the code.
CheckNoAuth(api_key, oauth_token) ==
    ~Truthy(oauth_token) /\ ~Truthy(api_key)

CheckNotBothDroppingSecret(api_key, secret_key, oauth_token) ==
    Truthy(oauth_token) /\ Truthy(api_key)

CheckNotBoth(api_key, secret_key, oauth_token) ==
    Truthy(oauth_token) /\ (Truthy(api_key) \/ Truthy(secret_key))

CheckNoSecretSkipped(api_key, secret_key, oauth_token) ==
    FALSE

CheckNoSecret(api_key, secret_key, oauth_token) ==
    ~Truthy(oauth_token) /\ ~(Truthy(api_key) /\ Truthy(secret_key))

\* RestClient._validate_credentials: a pure function of its three arguments.
_validate_credentials(api_key, secret_key, oauth_token) ==
    IF CheckNoAuth(api_key, oauth_token)
    THEN ValueError(MsgNoAuth)
    ELSE IF CheckNotBoth(api_key, secret_key, oauth_token)
    THEN ValueError(MsgNotBoth)
    ELSE IF CheckNoSecret(api_key, secret_key, oauth_token)
    THEN ValueError(MsgNoSecret)
    ELSE Returned(<<api_key, secret_key, oauth_token>>)

\* Credentials.validate_credentials: the same checks over the fields of the
\* settings object.
validate_credentials(self) ==
    IF CheckNoAuth(self.api_key, self.oauth_token)
    THEN ValueError(MsgNoAuth)
    ELSE IF CheckNotBoth(self.api_key, self.secret_key, self.oauth_token)
    THEN ValueError(MsgNotBoth)
    ELSE IF CheckNoSecret(self.api_key, self.secret_key, self.oauth_token)
    THEN ValueError(MsgNoSecret)
    ELSE Returned(self)

\* The process environment the Credentials settings class reads.
Envs ==
    { [api_key |-> None, secret_key |-> None, oauth_token |-> None],
      [api_key |-> "test", secret_key |-> "secret", oauth_token |-> None],
      [api_key |-> None, secret_key |-> None, oauth_token |-> "token"],
      [api_key |-> "test", secret_key |-> None, oauth_token |-> None] }

\* pytest.raises(match=...): re.search of a literal pattern in the message,
\* a contiguous occurrence of the pattern's words.
Matches(pattern, msg) ==
    \E i \in 1..(Len(msg) - Len(pattern) + 1) :
        SubSeq(msg, i, i + Len(pattern) - 1) = pattern

(***************************************************************************)
(* Client configuration: rest.py RestClient.__init__                       *)
(***************************************************************************)
NoClient == [constructed |-> FALSE]

RetryAttempts == (-1)..MaxRetry
RetryWaits == {0, 3}
RetryCodes == { <<429, 504>>, <<429>>, <<>>, <<301, 429>> }

Range(s) == {s[i] : i \in DOMAIN s}

(***************************************************************************)
(* HTTP responses: requests.Response as the client reads it                *)
(***************************************************************************)
\* Python's None as a returned value.
PyNone == [type |-> "NoneType"]

\* Field names of the error body models (exceptions.py): each model's
\* model_fields, the inherited code and message included.
ErrorBodyFields == {"code", "message"}
BuyingPowerErrorBodyNoOwnFields == ErrorBodyFields
BuyingPowerErrorBodyFields == ErrorBodyFields \cup {"buying_power", "cost_basis"}
PDTErrorBodyFields ==
    ErrorBodyFields \cup {"day_trading_buying_power", "max_dtbp_used",
                          "max_dtbp_used_so_far", "open_orders", "symbol"}

\* Decoded JSON values a body may hold: an array, and objects with a key set
\* whose values do (well_typed) or do not have the types the models declare.
JsonValues ==
    { [type |-> "list", keys |-> {}, well_typed |-> TRUE],
      [type |-> "dict", keys |-> ErrorBodyFields, well_typed |-> TRUE],
      [type |-> "dict", keys |-> ErrorBodyFields, well_typed |-> FALSE],
      [type |-> "dict", keys |-> BuyingPowerErrorBodyFields, well_typed |-> TRUE],
      [type |-> "dict", keys |-> {"message"}, well_typed |-> TRUE] }

\* Response bodies: the empty text, a non-empty text that is not JSON, and
\* the JSON encoding of a value.
EmptyBody == [kind |-> "empty"]
InvalidBody == [kind |-> "invalid"]
JsonBody(v) == [kind |-> "json", value |-> v]
Bodies == {EmptyBody, InvalidBody} \cup {JsonBody(v) : v \in JsonValues}

StatusCodes == {101, 200, 301, 404, 429, 504}
Responses == [status_code : StatusCodes, body : Bodies]

Raised(type) == [raised |-> TRUE, type |-> type]

\* json.loads / Response.json: the decoded value, or a decode error for an
\* empty or malformed text.
json_loads(body) ==
    IF body.kind = "json" THEN Returned(body.value) ELSE Raised("JSONDecodeError")

\* Response.raise_for_status raises HTTPError for 4xx and 5xx only.
raise_for_status(response) ==
    400 <= response.status_code /\ response.status_code < 600

(***************************************************************************)
(* exceptions.py: APIError                                                 *)
(***************************************************************************)
\* The error body models in the order APIError.body tries them.
_models ==
    << [name |-> "ErrorBody", model_fields |-> ErrorBodyFields],
       [name |-> "BuyingPowerErrorBody", model_fields |-> BuyingPowerErrorBodyFields],
       [name |-> "PDTErrorBody", model_fields |-> PDTErrorBodyFields] >>

\* APIError.body.
bodySubsetMatch(response) ==
    LET decoded == json_loads(response.body) IN
    IF decoded.raised THEN decoded
    ELSE IF decoded.value.type # "dict" THEN Raised("AttributeError")
    ELSE LET _body == decoded.value
             matching == {i \in DOMAIN _models :
                            _models[i].model_fields \subseteq _body.keys}
         IN IF matching = {} THEN Returned([model |-> "dict", raw |-> _body])
            ELSE LET first == CHOOSE i \in matching : \A j \in matching : i <= j
                 IN IF _body.well_typed
                    THEN Returned([model |-> _models[first].name, raw |-> _body])
                    ELSE Returned([model |-> "dict", raw |-> _body])

bodyRaisingOnInvalid(response) ==
    LET decoded == json_loads(response.body) IN
    IF decoded.raised THEN decoded
    ELSE IF decoded.value.type # "dict" THEN Raised("AttributeError")
    ELSE LET _body == decoded.value
             matching == {i \in DOMAIN _models : _models[i].model_fields = _body.keys}
         IN IF matching = {} THEN Returned([model |-> "dict", raw |-> _body])
            ELSE LET first == CHOOSE i \in matching : \A j \in matching : i <= j
                 IN IF _body.well_typed
                    THEN Returned([model |-> _models[first].name, raw |-> _body])
                    ELSE Raised("ValidationError")

\* APIError.body: decode the content, then the first model whose field set
\* equals the key set decides: the validated model, or the raw map when
\* validation fails; the raw map when no model matches.  A JSON value that
\* is no object has no keys() and raises AttributeError.
body(response) ==
    LET decoded == json_loads(response.body) IN
    IF decoded.raised THEN decoded
    ELSE IF decoded.value.type # "dict" THEN Raised("AttributeError")
    ELSE LET _body == decoded.value
             matching == {i \in DOMAIN _models : _models[i].model_fields = _body.keys}
         IN IF matching = {} THEN Returned([model |-> "dict", raw |-> _body])
            ELSE LET first == CHOOSE i \in matching : \A j \in matching : i <= j
                 IN IF _body.well_typed
                    THEN Returned([model |-> _models[first].name, raw |-> _body])
                    ELSE Returned([model |-> "dict", raw |-> _body])

\* An APIError that keeps the HTTPError and builds no message from the body
\* in its __init__.
APIErrorWithoutMessage(response) ==
    [raised |-> TRUE, type |-> "APIError",
     status_code |-> response.status_code, body |-> [model |-> "unread", raw |-> PyNone]]

\* APIError.__init__: builds its message with __repr__, which reads
\* status_code and body; an error raised by body escapes the constructor.
APIError(response) ==
    LET b == body(response) IN
    IF b.raised THEN b
    ELSE [raised |-> TRUE, type |-> "APIError",
          status_code |-> response.status_code, body |-> b.value]

(***************************************************************************)
(* rest.py: RestClient._one_request                                        *)
(***************************************************************************)
\* Line 207: the response is retried when its status is in the retry codes
\* and attempts remain.
ShouldRetryWithoutAttempts(self, response, retry) ==
    response.status_code \in Range(self._retry_codes) /\ retry >= 0

\* The status test alone, the attempts left not consulted.
ShouldRetryOnStatusAlone(self, response, retry) ==
    response.status_code \in Range(self._retry_codes)

ShouldRetry(self, response, retry) ==
    response.status_code \in Range(self._retry_codes) /\ retry > 0

\* Line 212: an empty text is not decoded.
HasTextAlways(response) == TRUE

HasText(response) == response.body.kind # "empty"

\* One exchange whose answer is response: what _one_request returns or
\* raises.
_one_request(self, response, retry) ==
    IF raise_for_status(response)
    THEN IF ShouldRetry(self, response, retry)
         THEN Raised("RetryError")
         ELSE APIError(response)
    ELSE IF HasText(response)
         THEN json_loads(response.body)
         ELSE Returned(PyNone)

(***************************************************************************)
(* rest.py: RestClient.__init__                                            *)
(***************************************************************************)
\* Lines 59 and 63-64: the attempts are stored as given; the conditional
\* re-assignment stores the same value again.
init_retry_clamped(retry_attempts) ==
    IF retry_attempts # 0 /\ retry_attempts > 0 THEN retry_attempts ELSE 0

init_retry(retry_attempts) ==
    IF retry_attempts # 0 /\ retry_attempts > 0 THEN retry_attempts ELSE retry_attempts

\* Lines 60 and 66-67.
init_retry_wait(retry_wait_seconds) ==
    IF retry_wait_seconds # 0 /\ retry_wait_seconds > 0
    THEN retry_wait_seconds ELSE retry_wait_seconds

\* BaseURL.TRADING_PAPER, the base url the clients of the model are given.
TRADING_PAPER == "https://paper-api.alpaca.markets"

\* The object __init__ leaves behind when credential validation returns.
StoreSwapped(credentials, use_basic_auth, retry_attempts, retry_wait_seconds, retry_exception_codes) ==
    [constructed |-> TRUE,
     _api_key |-> credentials[2],
     _secret_key |-> credentials[1],
     _oauth_token |-> credentials[3],
     _api_version |-> "v2",
     _base_url |-> TRADING_PAPER,
     _use_basic_auth |-> use_basic_auth,
     _retry |-> init_retry(retry_attempts),
     _retry_wait |-> init_retry_wait(retry_wait_seconds),
     _retry_codes |-> retry_exception_codes]

Store(credentials, use_basic_auth, retry_attempts, retry_wait_seconds, retry_exception_codes) ==
    [constructed |-> TRUE,
     _api_key |-> credentials[1],
     _secret_key |-> credentials[2],
     _oauth_token |-> credentials[3],
     _api_version |-> "v2",
     _base_url |-> TRADING_PAPER,
     _use_basic_auth |-> use_basic_auth,
     _retry |-> init_retry(retry_attempts),
     _retry_wait |-> init_retry_wait(retry_wait_seconds),
     _retry_codes |-> retry_exception_codes]

NotCalled == [called |-> FALSE]
NotLoaded == [loaded |-> FALSE]

(***************************************************************************)
(* rest.py: request headers and options                                    *)
(***************************************************************************)
\* pypaca.__version__
__version__ == "0.0.1"

\* base64.b64encode(text.encode()).decode("utf-8") on the key:secret texts
\* the credential values of the model form.
b64encode(text) ==
    CASE text = "test:secret" -> "dGVzdDpzZWNyZXQ="
      [] text = "test:None" -> "dGVzdDpOb25l"
      [] text = "None:secret" -> "Tm9uZTpzZWNyZXQ="
      [] text = "None:None" -> "Tm9uZTpOb25l"
      [] text = "test:" -> "dGVzdDo="
      [] text = ":secret" -> "OnNlY3JldA=="
      [] text = ":" -> "Og=="
      [] text = "None:" -> "Tm9uZTo="
      [] text = ":None" -> "Ok5vbmU="

\* RestClient._get_auth_headers: the bearer header for an oauth token, else
\* the basic header when basic auth is on, else the two key headers.
_get_auth_headers_basic_first(self) ==
    IF self._use_basic_auth
    THEN "Authorization" :>
            ("Basic " \o b64encode(self._api_key \o ":" \o self._secret_key))
    ELSE IF Truthy(self._oauth_token)
    THEN "Authorization" :> ("Bearer " \o self._oauth_token)
    ELSE ("APCA-API-KEY-ID" :> self._api_key) @@
         ("APCA-API-SECRET-KEY" :> self._secret_key)

\* The key headers left out when the key or the secret is missing.
_get_auth_headers_skipping_missing(self) ==
    IF Truthy(self._oauth_token)
    THEN "Authorization" :> ("Bearer " \o self._oauth_token)
    ELSE IF self._use_basic_auth
    THEN "Authorization" :>
            ("Basic " \o b64encode(self._api_key \o ":" \o self._secret_key))
    ELSE IF Truthy(self._api_key) /\ Truthy(self._secret_key)
    THEN ("APCA-API-KEY-ID" :> self._api_key) @@
         ("APCA-API-SECRET-KEY" :> self._secret_key)
    ELSE <<>>

_get_auth_headers(self) ==
    IF Truthy(self._oauth_token)
    THEN "Authorization" :> ("Bearer " \o self._oauth_token)
    ELSE IF self._use_basic_auth
    THEN "Authorization" :>
            ("Basic " \o b64encode(self._api_key \o ":" \o self._secret_key))
    ELSE ("APCA-API-KEY-ID" :> self._api_key) @@
         ("APCA-API-SECRET-KEY" :> self._secret_key)

\* RestClient._get_default_headers: the auth headers and the User-Agent.
_get_default_headers(self) ==
    ("User-Agent" :> ("APCA-PY/" \o __version__)) @@ _get_auth_headers(self)

\* str.upper on the method names a dispatch is given.
upper(method) ==
    CASE method = "get" -> "GET"
      [] method = "post" -> "POST"
      [] OTHER -> method

\* The methods of get, post, put, patch and delete, and two lower-case
\* spellings _request accepts as well.
Methods == {"GET", "POST", "PUT", "PATCH", "DELETE", "get", "post"}

\* Payloads: no data, and a dict of values.
Payloads == {PyNone, [limit |-> 5]}

\* Lines 121-124: the payload goes to params for GET and DELETE, to json
\* for every other method.
PayloadKeyAlwaysJson(method) == "json"

PayloadKey(method) ==
    IF upper(method) \in {"GET", "DELETE"} THEN "params" ELSE "json"

\* Lines 106-124 of _request: the url and the options of the exchanges.
build_url(self, path) == self._base_url \o "/" \o self._api_version \o path

build_opts(self, method, data) ==
    LET headers == _get_default_headers(self) IN
    IF PayloadKey(method) = "params"
    THEN [headers |-> headers, allow_redirects |-> FALSE, params |-> data]
    ELSE [headers |-> headers, allow_redirects |-> FALSE, json |-> data]

\* Session.request(method, url, **opts): the request put on the wire; a
\* keyword the options do not hold keeps its default, None.
session_request(method, url, opts) ==
    [method |-> upper(method),
     url |-> url,
     headers |-> opts.headers,
     allow_redirects |-> opts.allow_redirects,
     params |-> IF "params" \in DOMAIN opts THEN opts.params ELSE PyNone,
     json |-> IF "json" \in DOMAIN opts THEN opts.json ELSE PyNone]

(***************************************************************************)
(* One dispatch (RestClient._request) and its local state                  *)
(***************************************************************************)
NoResponse == [status_code |-> 0, body |-> EmptyBody]
Pending == [raised |-> FALSE, value |-> [type |-> "pending"]]

NoOpts == [headers |-> <<>>, allow_redirects |-> FALSE]

IdleCall ==
    [pc |-> "idle", retry |-> 0, exchanges |-> 0, waits |-> 0, slept |-> 0,
     last |-> NoResponse, result |-> Pending, allRetryable |-> TRUE,
     events |-> <<>>, method |-> "", data |-> PyNone, url |-> "",
     opts |-> NoOpts, sent |-> <<>>]

\* Line 131: the handler of the loop catches RetryError only.
CatchesNothing(exception) == FALSE

Catches(exception) == exception.type = "RetryError"

\* Line 128, while retry >= 0, and line 135, return None: where the
\* dispatch c goes when control reaches the loop test.
LoopTestStrict(c) ==
    IF c.retry > 0
    THEN [c EXCEPT !.pc = "attempting"]
    ELSE [c EXCEPT !.pc = "done", !.result = Returned(PyNone)]

LoopTest(c) ==
    IF c.retry >= 0
    THEN [c EXCEPT !.pc = "attempting"]
    ELSE [c EXCEPT !.pc = "done", !.result = Returned(PyNone)]

\* A response that takes the retry branch's status test: an HTTP error whose
\* status is in the client's retry codes.
AnsweredRetryable(self, response) ==
    /\ response.status_code \in 400..599
    /\ response.status_code \in Range(self._retry_codes)

\* The steps of one dispatch as functions of the client and of the
\* dispatch's own record, shared by every thread that runs a dispatch.
\* Lines 106-128: the options are built and the attempts counter is a local
\* initialised from the client.
RequestStep(self, method, data) ==
    LoopTest([IdleCall EXCEPT !.retry = self._retry,
                              !.method = method,
                              !.data = data,
                              !.url = build_url(self, "/account"),
                              !.opts = build_opts(self, method, data)])

\* Lines 129-131 and 201-214: one exchange answered by response.
ExchangeStep(self, c, response) ==
    LET outcome == _one_request(self, response, c.retry)
        d == [c EXCEPT !.exchanges = @ + 1,
                       !.last = response,
                       !.events = Append(@, "exchange"),
                       !.sent = Append(@, session_request(c.method, c.url, c.opts)),
                       !.allRetryable = @ /\ AnsweredRetryable(self, response)]
    IN IF outcome.raised /\ Catches(outcome)
       THEN [d EXCEPT !.pc = "sleeping"]
       ELSE [d EXCEPT !.pc = "done", !.result = outcome]

\* Line 132: time.sleep(self._retry_wait).
SleepStep(self, c) ==
    [c EXCEPT !.pc = "decrementing",
              !.waits = @ + 1,
              !.slept = @ + self._retry_wait,
              !.events = Append(@, "sleep")]

\* The handler going back to the loop test without the decrement.
DecrementStepSkipped(c) == LoopTest(c)

\* The decrement taking two attempts at a time.
DecrementStepByTwo(c) == LoopTest([c EXCEPT !.retry = @ - 2])

\* Lines 133-134: retry -= 1; continue.
DecrementStep(c) == LoopTest([c EXCEPT !.retry = @ - 1])

\* The states of the error classification and of the pagination before
\* anything is asked of them.
NoError == [pc |-> "idle"]
NoPagination == [pc |-> "idle"]

Init ==
    /\ env \in Envs
    /\ ctor = NotCalled
    /\ client = NoClient
    /\ settings = NotLoaded
    /\ call = IdleCall
    /\ other = IdleCall
    /\ err = NoError
    /\ pag = NoPagination

\* RestClient(base_url, api_key, secret_key, oauth_token, use_basic_auth, ...).
Construct(api_key, secret_key, oauth_token, basic, retry_attempts, retry_wait, retry_codes) ==
    /\ ~client.constructed
    /\ LET credentials == _validate_credentials(api_key, secret_key, oauth_token) IN
       /\ ctor' = [called |-> TRUE, api_key |-> api_key, secret_key |-> secret_key,
                   oauth_token |-> oauth_token, retry_attempts |-> retry_attempts,
                   result |-> credentials]
       /\ client' = IF credentials.raised
                    THEN NoClient
                    ELSE Store(credentials.value, basic, retry_attempts, retry_wait,
                               retry_codes)
    /\ UNCHANGED <<env, settings, call, other, err, pag>>

\* Credentials(): the settings object takes its fields from the environment
\* and runs its validator.
LoadCredentials ==
    /\ ~settings.loaded
    /\ settings' = [loaded |-> TRUE, result |-> validate_credentials(env)]
    /\ UNCHANGED <<env, ctor, client, call, other, err, pag>>

\* get/post/put/patch/delete -> _request, lines 106-128.
Request(method, data) ==
    /\ client.constructed
    /\ call.pc \in {"idle", "done"}
    /\ call' = RequestStep(client, method, data)
    /\ UNCHANGED <<env, ctor, client, settings, other, err, pag>>

\* Lines 129-131: one exchange answered by response.
Exchange(response) ==
    /\ call.pc = "attempting"
    /\ call' = ExchangeStep(client, call, response)
    /\ UNCHANGED <<env, ctor, client, settings, other, err, pag>>

\* Line 132: time.sleep(self._retry_wait).
Sleep ==
    /\ call.pc = "sleeping"
    /\ call' = SleepStep(client, call)
    /\ UNCHANGED <<env, ctor, client, settings, other, err, pag>>

\* Lines 133-134: retry -= 1; continue.
Decrement ==
    /\ call.pc = "decrementing"
    /\ call' = DecrementStep(call)
    /\ UNCHANGED <<env, ctor, client, settings, other, err, pag>>

\* The defaults of the arguments the retry loop does not read: basic auth
\* off (rest.py:26), a GET without data (rest.py:216).
DefaultBasicAuth == {FALSE}
DefaultMethods == {"GET"}
DefaultPayloads == {PyNone}

Next ==
    \/ \E a \in ApiKeyValues, s \in SecretKeyValues, o \in OAuthTokenValues,
          b \in DefaultBasicAuth,
          n \in RetryAttempts, w \in RetryWaits, codes \in RetryCodes :
            Construct(a, s, o, b, n, w, codes)
    \/ LoadCredentials
    \/ \E m \in DefaultMethods, d \in DefaultPayloads : Request(m, d)
    \/ \E response \in Responses : Exchange(response)
    \/ Sleep
    \/ Decrement

Spec == Init /\ [][Next]_vars

(***************************************************************************)
(* The dispatch with every method, payload and auth mode                   *)
(***************************************************************************)
\* Largest retry_attempts of the clients whose requests are inspected.
MaxRequestRetry == 1

RequestRetryAttempts == 0..MaxRequestRetry
RequestRetryWaits == {3}
RequestRetryCodes == { <<429, 504>> }
RequestResponses ==
    [status_code : {200, 404, 429},
     body : {EmptyBody,
             JsonBody([type |-> "dict", keys |-> ErrorBodyFields, well_typed |-> TRUE])}]

InitRequest ==
    /\ Init
    /\ env = [api_key |-> None, secret_key |-> None, oauth_token |-> None]

NextRequest ==
    \/ \E a \in ApiKeyValues, s \in SecretKeyValues, o \in OAuthTokenValues,
          b \in BOOLEAN,
          n \in RequestRetryAttempts, w \in RequestRetryWaits,
          codes \in RequestRetryCodes :
            Construct(a, s, o, b, n, w, codes)
    \/ \E m \in Methods, d \in Payloads : Request(m, d)
    \/ \E response \in RequestResponses : Exchange(response)
    \/ Sleep
    \/ Decrement

SpecRequest == InitRequest /\ [][NextRequest]_vars

\* The headers a dispatch built, and those of each request it sent.
HeadersOf(c) == {c.opts.headers} \cup {c.sent[i].headers : i \in DOMAIN c.sent}

KeyHeaders == {"APCA-API-KEY-ID", "APCA-API-SECRET-KEY"}

\* C11: the headers of every dispatch hold a User-Agent and exactly one
\* authentication scheme: the Bearer header when the client holds an oauth
\* token, basic auth on or off; else the Basic header of base64(key:secret)
\* when basic auth is on; else the two key headers.  An Authorization header
\* and the key headers never appear together.
C11_HeadersOneScheme ==
    call.pc # "idle" =>
        \A h \in HeadersOf(call) :
            /\ "User-Agent" \in DOMAIN h
            /\ h["User-Agent"] = "APCA-PY/0.0.1"
            /\ ~("Authorization" \in DOMAIN h /\ KeyHeaders \cap DOMAIN h # {})
            /\ IF Truthy(client._oauth_token)
               THEN /\ DOMAIN h = {"User-Agent", "Authorization"}
                    /\ h["Authorization"] = "Bearer token"
               ELSE IF client._use_basic_auth
               THEN /\ DOMAIN h = {"User-Agent", "Authorization"}
                    /\ h["Authorization"] = "Basic dGVzdDpzZWNyZXQ="
               ELSE /\ DOMAIN h = {"User-Agent"} \cup KeyHeaders
                    /\ h["APCA-API-KEY-ID"] = "test"
                    /\ h["APCA-API-SECRET-KEY"] = "secret"

C11_Witness ==
    /\ client.constructed
    /\ Truthy(client._oauth_token) /\ client._use_basic_auth
    /\ call.pc = "done" /\ Len(call.sent) = 2
    /\ call.sent[2].headers["Authorization"] = "Bearer token"

\* C12: every dispatch puts its payload in exactly one channel, on each of
\* its attempts: the query parameters and not the JSON body for GET and
\* DELETE, the JSON body and not the query parameters for POST, PUT and
\* PATCH.
C12_PayloadChannel ==
    call.pc # "idle" =>
        LET sentIn == IF call.method \in {"GET", "DELETE", "get"} THEN "params"
                      ELSE "json"
            unused == IF sentIn = "params" THEN "json" ELSE "params"
        IN /\ call.method \in {"GET", "DELETE", "POST", "PUT", "PATCH", "get", "post"}
           /\ sentIn \in DOMAIN call.opts
           /\ unused \notin DOMAIN call.opts
           /\ call.opts[sentIn] = call.data
           /\ Len(call.sent) = call.exchanges
           /\ \A i \in DOMAIN call.sent :
                 /\ call.sent[i][sentIn] = call.data
                 /\ call.sent[i][unused] = PyNone

C12_Witness ==
    /\ call.pc = "done" /\ call.method = "POST" /\ call.data = [limit |-> 5]
    /\ Len(call.sent) = 2
    /\ call.sent[2].json = [limit |-> 5] /\ call.sent[1].params = PyNone

(***************************************************************************)
(* exceptions.py: the accessors of APIError on error payloads              *)
(***************************************************************************)
\* Values the code key of a payload holds: two numbers, a numeric string,
\* a string that is no number, and null.
CodeValues ==
    { [json |-> "number", text |-> "40410000"],
      [json |-> "number", text |-> "40310000"],
      [json |-> "string", text |-> "40410000"],
      [json |-> "string", text |-> "forbidden"],
      [json |-> "null", text |-> "null"] }

\* dict.get("code", None) on a payload without the key.
NoCode == [json |-> "null", text |-> "null"]

\* The digits of the model's numeric texts.
ParseInt(text) ==
    CASE text = "40410000" -> 40410000
      [] text = "40310000" -> 40310000

IsNumeric(text) == text \in {"40410000", "40310000"}

\* int(value): the number itself, the number a numeric string spells, a
\* ValueError for any other string, a TypeError for None.
python_int(value) ==
    CASE value.json = "number" -> Returned(ParseInt(value.text))
      [] value.json = "string" ->
            IF IsNumeric(value.text) THEN Returned(ParseInt(value.text))
            ELSE Raised("ValueError")
      [] OTHER -> Raised("TypeError")

\* pydantic's validation of a field declared int: a number or a numeric
\* string is accepted (and converted), anything else is not.
ValidatesAsInt(value) ==
    \/ value.json = "number"
    \/ value.json = "string" /\ IsNumeric(value.text)

ExtraFields == ErrorBodyFields \cup {"extra"}

\* The JSON objects of the error answers: a key set, the value under code
\* when the key is there, and whether every value has the type the models
\* declare (which needs a code that validates as int).
ErrorPayloads ==
    { [type |-> "dict", keys |-> k, well_typed |-> w, code |-> c] :
        k \in {ErrorBodyFields, BuyingPowerErrorBodyFields, PDTErrorBodyFields,
               ExtraFields, {"code"}},
        w \in BOOLEAN, c \in CodeValues } \cup
    { [type |-> "dict", keys |-> {"message"}, well_typed |-> TRUE, code |-> NoCode] }

ErrorContents ==
    {EmptyBody, InvalidBody,
     JsonBody([type |-> "list", keys |-> {}, well_typed |-> TRUE, code |-> NoCode])}
    \cup {JsonBody(v) : v \in {e \in ErrorPayloads :
              (e.well_typed /\ "code" \in e.keys) => ValidatesAsInt(e.code)}}

ErrorResponses == [status_code : {403, 404, 422}, body : ErrorContents]

\* APIError.code: body.code of a structured body, else int() of the value
\* the raw map holds under code, None when the key is missing.
code_by_index(response) ==
    LET b == body(response) IN
    IF b.raised THEN b
    ELSE IF b.value.model # "dict" THEN Returned(ParseInt(b.value.raw.code.text))
    ELSE IF "code" \in b.value.raw.keys THEN python_int(b.value.raw.code)
    ELSE Raised("KeyError")

code(response) ==
    LET b == body(response) IN
    IF b.raised THEN b
    ELSE IF b.value.model # "dict" THEN Returned(ParseInt(b.value.raw.code.text))
    ELSE python_int(IF "code" \in b.value.raw.keys THEN b.value.raw.code ELSE NoCode)

InitError ==
    /\ Init
    /\ env = [api_key |-> None, secret_key |-> None, oauth_token |-> None]

\* raise APIError(http_error) for the error answer response.
RaiseAPIError(response) ==
    /\ err.pc = "idle"
    /\ err' = [pc |-> "raised", response |-> response, error |-> APIError(response),
               body |-> Pending, code |-> Pending]
    /\ UNCHANGED <<env, ctor, client, settings, call, other, pag>>

\* The handler of an APIError reads its body.
ReadBody ==
    /\ err.pc = "raised"
    /\ err.error.type = "APIError"
    /\ err' = [err EXCEPT !.pc = "body", !.body = body(err.response)]
    /\ UNCHANGED <<env, ctor, client, settings, call, other, pag>>

\* The handler of an APIError reads its code.
ReadCode ==
    /\ err.pc = "body"
    /\ err' = [err EXCEPT !.pc = "code", !.code = code(err.response)]
    /\ UNCHANGED <<env, ctor, client, settings, call, other, pag>>

NextError ==
    \/ \E response \in ErrorResponses : RaiseAPIError(response)
    \/ ReadBody
    \/ ReadCode

SpecError == InitError /\ [][NextError]_vars

\* The payload of the error whose body was read.
Payload == err.response.body.value
BodyRead == err.pc \in {"body", "code"}

\* C13: the body of an error is the structured variant V exactly when the
\* key set of the payload equals the field set of V and decoding succeeds;
\* keys {code, message} give the generic variant, keys {code, message,
\* buying_power, cost_basis} the buying power variant.
C13_ExactFieldSetMatch ==
    BodyRead =>
        /\ ~err.body.raised
        /\ err.body.value.model = "ErrorBody" <=>
              (Payload.keys = {"code", "message"} /\ Payload.well_typed)
        /\ err.body.value.model = "BuyingPowerErrorBody" <=>
              (/\ Payload.keys = {"code", "message", "buying_power", "cost_basis"}
               /\ Payload.well_typed)
        /\ err.body.value.model = "PDTErrorBody" <=>
              (/\ Payload.keys = {"code", "message", "day_trading_buying_power",
                                  "max_dtbp_used", "max_dtbp_used_so_far",
                                  "open_orders", "symbol"}
               /\ Payload.well_typed)

C13_Witness ==
    /\ BodyRead
    /\ err.response.status_code = 404
    /\ Payload.keys = {"code", "message"} /\ Payload.code.text = "40410000"
    /\ err.body.value.model = "ErrorBody"

\* C14: when the payload is a JSON object and no variant has its key set,
\* or the matching variant fails validation, nothing is raised in place of
\* the APIError, and the body the error is built with and the body read
\* from it are the raw decoded map, unchanged.
C14_RawMapFallback ==
    (/\ err.pc # "idle"
     /\ err.response.body.kind = "json"
     /\ Payload.type = "dict"
     /\ \/ Payload.keys \notin {ErrorBodyFields, BuyingPowerErrorBodyFields,
                                PDTErrorBodyFields}
        \/ ~Payload.well_typed) =>
        /\ err.error.type = "APIError"
        /\ err.error.body = [model |-> "dict", raw |-> Payload]
        /\ BodyRead =>
               /\ ~err.body.raised
               /\ err.body.value.model = "dict"
               /\ err.body.value.raw = Payload

C14_Witness ==
    /\ BodyRead
    /\ Payload.keys = {"code", "message", "buying_power", "cost_basis"}
    /\ ~Payload.well_typed
    /\ ~err.body.raised /\ err.body.value.model = "dict"

CodeRead == err.pc = "code"
Structured == err.body.value.model # "dict"

\* C15, as stated: the code accessor returns body.code for a structured
\* body and otherwise the integer under the code key of the raw JSON; for a
\* payload without a code key it fails with a decode error.
C15_CodeOrDecodeError ==
    CodeRead =>
        IF "code" \in Payload.keys
        THEN (Structured \/ Payload.code.json = "number") =>
                (~err.code.raised /\ err.code.value = ParseInt(Payload.code.text))
        ELSE err.code.raised /\ err.code.type = "JSONDecodeError"

\* C15, amended: the code accessor returns body.code for a structured body
\* and otherwise int() of the value under the code key of the raw map: the
\* integer for a number or a numeric string, a ValueError for any other
\* string, and a TypeError, not a decode error, for null and for a payload
\* without a code key.
C15_CodeOrTypeError ==
    CodeRead =>
        IF Structured
        THEN ~err.code.raised /\ err.code.value = ParseInt(Payload.code.text)
        ELSE IF "code" \notin Payload.keys \/ Payload.code.json = "null"
        THEN err.code.raised /\ err.code.type = "TypeError"
        ELSE IF Payload.code.text \in {"40410000", "40310000"}
        THEN ~err.code.raised /\ err.code.value = ParseInt(Payload.code.text)
        ELSE err.code.raised /\ err.code.type = "ValueError"

C15_Witness ==
    /\ CodeRead /\ ~Structured
    /\ Payload.keys = {"message"}
    /\ err.code.raised /\ err.code.type = "TypeError"

(***************************************************************************)
(* Pagination: rest.py _validate_pagination / _return_paginated_result and *)
(* pagination.py validate_pagination / return_paginated_result             *)
(***************************************************************************)
\* Largest number of pages a source yields, and largest page.
MaxPages == 3
MaxPageSize == 3

\* enums.py PaginationType.
NONE == "none"
FULL == "full"
ITERATOR == "iterator"
PaginationTypes == {NONE, FULL, ITERATOR}

\* The handle_pagination argument: a PaginationType or None.
HandlePaginations == PaginationTypes \cup {None}

\* The max_items_limit argument: None or an int (0 is an int, not None).
IntValue(n) == [type |-> "int", value |-> n]
MaxItemsLimits == {PyNone, IntValue(0), IntValue(10)}

\* A page of n items; the item <<p, i>> is the i-th item of the p-th page.
Page(p, n) == [i \in 1..n |-> <<p, i>>]

\* The sources: every sequence of at most MaxPages pages of at most
\* MaxPageSize items each.
PageSizes == UNION {[1..k -> 0..MaxPageSize] : k \in 0..MaxPages}
PagesOf(sizes) == [p \in DOMAIN sizes |-> Page(p, sizes[p])]
Sources == {PagesOf(sizes) : sizes \in PageSizes}

\* An iterator over the pages of a source: pos pages yielded so far, pulls
\* calls of next() so far, exhausted once next() raised StopIteration.
FreshIterator == [pos |-> 0, pulls |-> 0, exhausted |-> FALSE]

ReturnedList(v) == [raised |-> FALSE, kind |-> "list", value |-> v]
ReturnedIterator == [raised |-> FALSE, kind |-> "iterator", value |-> <<>>]
NoResult == [raised |-> FALSE, kind |-> "pending", value |-> <<>>]

\* next(iterator, []): the next page, or an empty page at the end of the
\* source.
python_next_with_default(pages, it) ==
    IF it.pos < Len(pages)
    THEN [iterator |-> [it EXCEPT !.pos = @ + 1, !.pulls = @ + 1],
          result |-> ReturnedList(pages[it.pos + 1])]
    ELSE [iterator |-> [it EXCEPT !.pulls = @ + 1, !.exhausted = TRUE],
          result |-> ReturnedList(<<>>)]

\* next(iterator): the next page, or StopIteration at the end of the source.
python_next(pages, it) ==
    IF it.pos < Len(pages)
    THEN [iterator |-> [it EXCEPT !.pos = @ + 1, !.pulls = @ + 1],
          result |-> ReturnedList(pages[it.pos + 1])]
    ELSE [iterator |-> [it EXCEPT !.pulls = @ + 1, !.exhausted = TRUE],
          result |-> Raised("StopIteration")]

\* The concatenation of a sequence of pages.
RECURSIVE Flatten(_)
Flatten(pages) ==
    IF pages = <<>> THEN <<>> ELSE Head(pages) \o Flatten(Tail(pages))

\* list(next(iterator)) in place of the chain: the next page only.
list_chain_one_page(pages, it) ==
    IF it.pos < Len(pages)
    THEN [iterator |-> [it EXCEPT !.pos = @ + 1, !.pulls = @ + 1],
          result |-> ReturnedList(pages[it.pos + 1])]
    ELSE [iterator |-> [it EXCEPT !.pulls = @ + 1, !.exhausted = TRUE],
          result |-> ReturnedList(<<>>)]

\* list(chain.from_iterable(iterator)): pulls every remaining page and the
\* StopIteration that ends the source, and returns their items in one list.
list_chain_from_iterable(pages, it) ==
    [iterator |-> [pos |-> Len(pages),
                   pulls |-> it.pulls + (Len(pages) - it.pos) + 1,
                   exhausted |-> TRUE],
     result |-> ReturnedList(Flatten(SubSeq(pages, it.pos + 1, Len(pages))))]

MsgLimitOnlyFull ==
    <<"max_items_limit", "can", "only", "be", "specified", "for", "PaginationType.FULL">>
MsgInvalidType == <<"Invalid", "pagination", "type">>

\* RestClient._validate_pagination with the default of None dropped.
_validate_pagination_no_default(max_items_limit, handle_pagination) ==
    IF handle_pagination # FULL /\ max_items_limit # PyNone
    THEN ValueError(MsgLimitOnlyFull)
    ELSE Returned(handle_pagination)

\* rest.py: RestClient._validate_pagination.
_validate_pagination(max_items_limit, handle_pagination) ==
    LET mode == IF handle_pagination = None THEN FULL ELSE handle_pagination
    IN  IF mode # FULL /\ max_items_limit # PyNone
        THEN ValueError(MsgLimitOnlyFull)
        ELSE Returned(mode)

\* validate_pagination testing the limit for truth, not against None.
validate_pagination_truthy_limit(max_items_limit, handle_pagination) ==
    LET mode == IF handle_pagination = None THEN FULL ELSE handle_pagination
    IN  IF mode # FULL /\ max_items_limit \notin {PyNone, IntValue(0)}
        THEN ValueError(MsgLimitOnlyFull)
        ELSE Returned(mode)

\* pagination.py: validate_pagination.
validate_pagination(max_items_limit, handle_pagination) ==
    LET mode == IF handle_pagination = None THEN FULL ELSE handle_pagination
    IN  IF mode # FULL /\ max_items_limit # PyNone
        THEN ValueError(MsgLimitOnlyFull)
        ELSE Returned(mode)

\* RestClient._return_paginated_result taking the first page of the listed
\* source, list(iterator)[0], in place of next(iterator).
_return_paginated_result_listing(pages, it, handle_pagination) ==
    IF handle_pagination = NONE
    THEN [iterator |-> list_chain_from_iterable(pages, it).iterator,
          result |-> IF it.pos < Len(pages)
                     THEN ReturnedList(pages[it.pos + 1])
                     ELSE Raised("IndexError")]
    ELSE IF handle_pagination = FULL
    THEN list_chain_from_iterable(pages, it)
    ELSE IF handle_pagination = ITERATOR
    THEN [iterator |-> it, result |-> ReturnedIterator]
    ELSE [iterator |-> it, result |-> ValueError(MsgInvalidType)]

\* rest.py: RestClient._return_paginated_result on the iterator it over
\* pages: the iterator as the call leaves it, and the result.
_return_paginated_result(pages, it, handle_pagination) ==
    IF handle_pagination = NONE
    THEN python_next(pages, it)
    ELSE IF handle_pagination = FULL
    THEN list_chain_from_iterable(pages, it)
    ELSE IF handle_pagination = ITERATOR
    THEN [iterator |-> it, result |-> ReturnedIterator]
    ELSE [iterator |-> it, result |-> ValueError(MsgInvalidType)]

\* return_paginated_result pulling a page before it hands the iterator back.
return_paginated_result_primed(pages, it, handle_pagination) ==
    IF handle_pagination = NONE
    THEN python_next(pages, it)
    ELSE IF handle_pagination = FULL
    THEN list_chain_from_iterable(pages, it)
    ELSE IF handle_pagination = ITERATOR
    THEN [iterator |-> python_next(pages, it).iterator, result |-> ReturnedIterator]
    ELSE [iterator |-> it, result |-> ValueError(MsgInvalidType)]

\* pagination.py: return_paginated_result.
return_paginated_result(pages, it, handle_pagination) ==
    IF handle_pagination = NONE
    THEN python_next(pages, it)
    ELSE IF handle_pagination = FULL
    THEN list_chain_from_iterable(pages, it)
    ELSE IF handle_pagination = ITERATOR
    THEN [iterator |-> it, result |-> ReturnedIterator]
    ELSE [iterator |-> it, result |-> ValueError(MsgInvalidType)]

\* The two copies of the pagination logic.
Copies == {"RestClient", "pagination"}

InitPagination ==
    /\ Init
    /\ env = [api_key |-> None, secret_key |-> None, oauth_token |-> None]

\* A paginated call: the arguments and the page source of the endpoint.
Paginate(copy, pages, max_items_limit, handle_pagination) ==
    /\ pag.pc = "idle"
    /\ pag' = [pc |-> "called", copy |-> copy, pages |-> pages,
               max_items_limit |-> max_items_limit,
               handle_pagination |-> handle_pagination,
               mode |-> handle_pagination, iterator |-> FreshIterator,
               result |-> NoResult, pulls_at_return |-> 0, obtained |-> <<>>]
    /\ UNCHANGED <<env, ctor, client, settings, call, other, err>>

\* The validation of the arguments, before any page is requested.
Validate ==
    /\ pag.pc = "called"
    /\ LET v == IF pag.copy = "RestClient"
                THEN _validate_pagination(pag.max_items_limit, pag.handle_pagination)
                ELSE validate_pagination(pag.max_items_limit, pag.handle_pagination)
       IN  pag' = IF v.raised
                  THEN [pag EXCEPT !.pc = "rejected", !.result = v]
                  ELSE [pag EXCEPT !.pc = "validated", !.mode = v.value]
    /\ UNCHANGED <<env, ctor, client, settings, call, other, err>>

\* The conversion of the page iterator to the result of the validated mode.
Materialize ==
    /\ pag.pc = "validated"
    /\ LET r == IF pag.copy = "RestClient"
                THEN _return_paginated_result(pag.pages, pag.iterator, pag.mode)
                ELSE return_paginated_result(pag.pages, pag.iterator, pag.mode)
       IN  pag' = [pag EXCEPT !.pc = IF r.result.raised THEN "raised" ELSE "returned",
                              !.iterator = r.iterator,
                              !.result = r.result,
                              !.pulls_at_return = r.iterator.pulls]
    /\ UNCHANGED <<env, ctor, client, settings, call, other, err>>

\* The caller iterates over the iterator it was handed: one next() a step,
\* until StopIteration ends its loop.
CallerNext ==
    /\ pag.pc = "returned"
    /\ pag.result.kind = "iterator"
    /\ ~pag.iterator.exhausted
    /\ LET r == python_next(pag.pages, pag.iterator)
       IN  pag' = [pag EXCEPT !.iterator = r.iterator,
                              !.obtained = IF r.result.raised THEN @
                                           ELSE Append(@, r.result.value)]
    /\ UNCHANGED <<env, ctor, client, settings, call, other, err>>

NextPagination ==
    \/ \E copy \in Copies, pages \in Sources, max_items_limit \in MaxItemsLimits, handle_pagination \in HandlePaginations : Paginate(copy, pages, max_items_limit, handle_pagination)
    \/ Validate
    \/ Materialize
    \/ CallerNext

SpecPagination == InitPagination /\ [][NextPagination]_vars

\* Number of items of the pages before page p.
ItemsBefore(pages, p) ==
    Cardinality(UNION {{<<q, j>> : j \in DOMAIN pages[q]} : q \in 1..(p - 1)})

Materialized == pag.pc \in {"returned", "raised"}

\* C16: in FULL mode the materializer returns one list holding the items of
\* every page of the source, the i-th item of page p at the place after all
\* items of the earlier pages and the earlier items of page p, and nothing
\* else; when it returns, every page has been pulled and the source has
\* reported its end.
C16_FullConcatenatesAll ==
    (Materialized /\ pag.mode = FULL) =>
        /\ pag.pc = "returned"
        /\ pag.result.kind = "list"
        /\ Len(pag.result.value) = ItemsBefore(pag.pages, Len(pag.pages) + 1)
        /\ \A p \in DOMAIN pag.pages : \A i \in DOMAIN pag.pages[p] :
               pag.result.value[ItemsBefore(pag.pages, p) + i] = pag.pages[p][i]
        /\ pag.iterator.pos = Len(pag.pages)
        /\ pag.iterator.exhausted

\* Pages of sizes 2, 3, 1 have been materialized in FULL mode to 6 items.
C16_Witness ==
    /\ pag.pc = "returned"
    /\ pag.mode = FULL
    /\ pag.pages = PagesOf(<<2, 3, 1>>)
    /\ pag.result.value = <<<<1, 1>>, <<1, 2>>, <<2, 1>>, <<2, 2>>, <<2, 3>>, <<3, 1>>>>

\* C17: in NONE mode the materializer calls next() on the source exactly
\* once: at most the first page has been requested, and when the source has
\* a first page the result is that page, the source left unexhausted at
\* its second page.
C17_NoneTakesFirstPageOnly ==
    (Materialized /\ pag.mode = NONE) =>
        /\ pag.pulls_at_return = 1
        /\ pag.iterator.pulls = 1
        /\ pag.iterator.pos <= 1
        /\ Len(pag.pages) >= 1 =>
               /\ pag.pc = "returned"
               /\ pag.result = ReturnedList(pag.pages[1])
               /\ pag.iterator.pos = 1
               /\ ~pag.iterator.exhausted

\* NONE mode on pages of sizes 2, 3, 1 returned the 2 items of page 1.
C17_Witness ==
    /\ pag.pc = "returned"
    /\ pag.mode = NONE
    /\ pag.pages = PagesOf(<<2, 3, 1>>)
    /\ pag.result.value = <<<<1, 1>>, <<1, 2>>>>
    /\ pag.iterator.pos = 1

\* C18: in ITERATOR mode the materializer returns the iterator it was given
\* with no next() called on it; the pages the caller then obtains from it
\* are the pages of the source from the first on, each once and in order,
\* and all of them once the iterator has ended.
C18_IteratorReturnedUnconsumed ==
    (Materialized /\ pag.mode = ITERATOR) =>
        /\ pag.pc = "returned"
        /\ pag.result.kind = "iterator"
        /\ pag.pulls_at_return = 0
        /\ Len(pag.obtained) = pag.iterator.pos
        /\ pag.obtained = SubSeq(pag.pages, 1, Len(pag.obtained))
        /\ pag.iterator.exhausted => pag.obtained = pag.pages

\* The caller has iterated the returned iterator over 3 pages to its end.
C18_Witness ==
    /\ pag.pc = "returned"
    /\ pag.mode = ITERATOR
    /\ pag.pages = PagesOf(<<2, 3, 1>>)
    /\ pag.iterator.exhausted
    /\ pag.obtained = pag.pages

Validated == pag.pc \in {"validated", "returned", "raised"}

\* C19: validation raises ValueError exactly when max_items_limit is not
\* None and handle_pagination is NONE or ITERATOR; otherwise it returns the
\* mode, FULL for None. When it raises, next() was never called on the
\* source.
C19_ValidationOfLimit ==
    (pag.pc = "rejected" \/ Validated) =>
        /\ pag.pc = "rejected" <=>
               (pag.max_items_limit # PyNone /\ pag.handle_pagination \in {NONE, ITERATOR})
        /\ pag.pc = "rejected" =>
               /\ pag.result = ValueError(MsgLimitOnlyFull)
               /\ pag.iterator = FreshIterator
        /\ Validated =>
               pag.mode = IF pag.handle_pagination = None THEN FULL ELSE pag.handle_pagination

\* max_items_limit=10 with NONE has been rejected.
C19_Witness ==
    /\ pag.pc = "rejected"
    /\ pag.max_items_limit = IntValue(10)
    /\ pag.handle_pagination = NONE
    /\ pag.iterator.pulls = 0

(***************************************************************************)
(* Two dispatches interleaved on one client (rest.py _request, 106-135)    *)
(***************************************************************************)
\* Largest retry_attempts of the client two threads share.
MaxSharedRetry == 2

SharedRetryAttempts == (-1)..MaxSharedRetry
SharedResponses ==
    [status_code : {200, 404, 429},
     body : {JsonBody([type |-> "dict", keys |-> ErrorBodyFields, well_typed |-> TRUE])}]

\* The threads, and the dispatch record each one runs on: the locals of its
\* own _request frame.
Threads == {1, 2}
Local(t) == IF t = 1 THEN call ELSE other

\* A step that keeps the attempts counter in the client's _retry field
\* instead of the local retry.
StepWritesCounterOnClient(self, c) ==
    [self |-> [self EXCEPT !._retry = c.retry], call |-> c]

\* What a step of _request / _one_request writes: it assigns its locals
\* (retry, opts, response) and no attribute of self.
StepWrites(self, c) ==
    [self |-> self, call |-> c]

\* The writes w of a step of thread t take effect.
Commit(t, w) ==
    /\ client' = w.self
    /\ call' = IF t = 1 THEN w.call ELSE call
    /\ other' = IF t = 1 THEN other ELSE w.call
    /\ UNCHANGED <<env, ctor, settings, err, pag>>

InitShared ==
    /\ Init
    /\ env = [api_key |-> None, secret_key |-> None, oauth_token |-> None]

\* Thread t calls get(): lines 106-128.
ThreadRequest(t, method, data) ==
    /\ client.constructed
    /\ Local(t).pc \in {"idle", "done"}
    /\ Commit(t, StepWrites(client, RequestStep(client, method, data)))

\* Lines 129-131 on thread t: one exchange answered by response.
ThreadExchange(t, response) ==
    /\ Local(t).pc = "attempting"
    /\ Commit(t, StepWrites(client, ExchangeStep(client, Local(t), response)))

\* Line 132 on thread t.
ThreadSleep(t) ==
    /\ Local(t).pc = "sleeping"
    /\ Commit(t, StepWrites(client, SleepStep(client, Local(t))))

\* Lines 133-134 on thread t.
ThreadDecrement(t) ==
    /\ Local(t).pc = "decrementing"
    /\ Commit(t, StepWrites(client, DecrementStep(Local(t))))

NextShared ==
    \/ \E n \in SharedRetryAttempts : Construct("test", "secret", None, FALSE, n, 3, <<429, 504>>)
    \/ \E t \in Threads : ThreadRequest(t, "GET", PyNone)
    \/ \E t \in Threads, response \in SharedResponses : ThreadExchange(t, response)
    \/ \E t \in Threads : ThreadSleep(t)
    \/ \E t \in Threads : ThreadDecrement(t)

SpecShared == InitShared /\ [][NextShared]_vars

\* The counter of dispatch c is the client's retry_attempts less c's own
\* decrements, and c has made at most retry_attempts + 1 exchanges.
OwnCounter(c) ==
    c.pc # "idle" =>
        /\ c.retry = client._retry - c.waits + (IF c.pc = "decrementing" THEN 1 ELSE 0)
        /\ c.exchanges <= IF client._retry >= 0 THEN client._retry + 1 ELSE 0

\* C20: with two dispatches interleaved on one client, at every point each
\* dispatch's attempts counter depends on its own waits only and each has
\* made at most retry_attempts + 1 exchanges, whatever the other was
\* answered; and no step of a dispatch changes a field of the client.
C20_DispatchesIndependent ==
    /\ [](client.constructed => (OwnCounter(call) /\ OwnCounter(other)))
    /\ [][client.constructed => client' = client]_vars

\* Both dispatches are in flight with different counters: one on its last
\* attempt, the other waiting after its first exchange.
C20_Witness ==
    /\ client.constructed
    /\ client._retry >= 1
    /\ call.pc = "attempting"
    /\ call.retry = 0
    /\ call.exchanges = client._retry
    /\ other.pc = "sleeping"
    /\ other.retry = client._retry
    /\ other.exchanges = 1

(***************************************************************************)
(* Properties of the dispatch                                              *)
(***************************************************************************)
Done == call.pc = "done"
Is2xx(status) == 200 <= status /\ status < 300
IsJsonObject(b) == b.kind = "json" /\ b.value.type = "dict"
ReturnedNone == ~call.result.raised /\ call.result.value = PyNone

\* The errors the last exchange of a dispatch raises for a 4xx/5xx answer
\* that is not retried: APIError carrying the status for a JSON object
\* body, else the error raised while the APIError builds its message.
RaisesErrorOfLast ==
    /\ call.result.raised
    /\ IF IsJsonObject(call.last.body)
       THEN /\ call.result.type = "APIError"
            /\ call.result.status_code = call.last.status_code
       ELSE IF call.last.body.kind = "json"
       THEN call.result.type = "AttributeError"
       ELSE call.result.type = "JSONDecodeError"

C2_ExchangesAndWaits ==
    (Done /\ call.allRetryable /\ client._retry >= 0) =>
        /\ call.exchanges = client._retry + 1
        /\ call.waits = client._retry
        /\ call.slept = client._retry * client._retry_wait
        /\ Len(call.events) = 2 * client._retry + 1
        /\ \A i \in DOMAIN call.events :
              call.events[i] = IF i % 2 = 1 THEN "exchange" ELSE "sleep"

C2_Witness ==
    /\ Done /\ call.allRetryable /\ client._retry = 3
    /\ call.exchanges = 4 /\ call.waits = 3 /\ call.slept = 9

\* C3: a dispatch that ended on a response whose status is not 2xx (the
\* response was not retried) raised APIError and returned no value, 1xx and
\* 3xx statuses included.
C3_NonSuccessRaisesAPIError ==
    (Done /\ call.exchanges >= 1 /\ ~Is2xx(call.last.status_code)) =>
        (call.result.raised /\ call.result.type = "APIError")

C5_SuccessReturnsDecoded ==
    (call.exchanges >= 1 /\ Is2xx(call.last.status_code)) =>
        /\ Done
        /\ ~call.result.raised
        /\ IF call.last.body.kind = "empty"
           THEN call.result.value = PyNone
           ELSE call.result.value \in JsonValues

\* C5, amended: the dispatch ends on its first 2xx answer with no wait after
\* it, returning None for an empty body and the decoded value for a body
\* that is valid JSON; for a non-empty body that is not valid JSON it ends
\* there as well, raising the decode error.
C5_SuccessEndsAtOnce ==
    (call.exchanges >= 1 /\ Is2xx(call.last.status_code)) =>
        /\ Done
        /\ call.waits = call.exchanges - 1
        /\ call.events[Len(call.events)] = "exchange"
        /\ CASE call.last.body.kind = "empty" -> ReturnedNone
             [] call.last.body.kind = "json" ->
                   ~call.result.raised /\ call.result.value = call.last.body.value
             [] OTHER ->
                   call.result.raised /\ call.result.type = "JSONDecodeError"

C5_Witness ==
    /\ Done /\ call.exchanges >= 3 /\ Is2xx(call.last.status_code)
    /\ ~call.result.raised /\ call.result.value.type = "dict"

(***************************************************************************)
(* Properties of construction                                              *)
(***************************************************************************)
\* The valid combinations: an oauth token alone, or both keys and no token.
ValidCombination(api_key, secret_key, oauth_token) ==
    \/ Truthy(oauth_token) /\ ~Truthy(api_key) /\ ~Truthy(secret_key)
    \/ Truthy(api_key) /\ Truthy(secret_key) /\ ~Truthy(oauth_token)

\* C6: credential validation, of the client and of the settings object,
\* accepts exactly the valid combinations and rejects every other with a
\* ValueError.
C6_CredentialValidation ==
    /\ ctor.called =>
          /\ ~ctor.result.raised <=>
                ValidCombination(ctor.api_key, ctor.secret_key, ctor.oauth_token)
          /\ ctor.result.raised => ctor.result.type = "ValueError"
    /\ settings.loaded =>
          /\ ~settings.result.raised <=>
                ValidCombination(env.api_key, env.secret_key, env.oauth_token)
          /\ settings.result.raised => settings.result.type = "ValueError"

C6_Witness ==
    /\ ctor.called /\ ctor.result.raised
    /\ Truthy(ctor.secret_key) /\ ~Truthy(ctor.api_key) /\ ~Truthy(ctor.oauth_token)
    /\ settings.loaded /\ ~settings.result.raised

\* C7: a constructed client holds exactly one valid credential mode, and
\* the values it holds are the ones its constructor was given, before and
\* after every dispatch.
C7_CredentialsInvariant ==
    client.constructed =>
        /\ ValidCombination(client._api_key, client._secret_key, client._oauth_token)
        /\ ctor.called
        /\ client._api_key = ctor.api_key
        /\ client._secret_key = ctor.secret_key
        /\ client._oauth_token = ctor.oauth_token

C7_Witness ==
    /\ client.constructed /\ Done /\ call.exchanges >= 2
    /\ Truthy(client._api_key) /\ Truthy(client._secret_key)

\* The patterns tests/rest/test_client.py expects the messages to match.
TestPatternNotBoth ==
    <<"Either", "an", "oauth_token", "or", "an", "api_key", "may", "be",
      "supplied,", "but", "not", "both">>
\* (a backquote character is written as the word BACKQUOTE)
TestPatternBothKeys ==
    <<"You", "must", "provide", "both", "the", "BACKQUOTE", "api_key", "BACKQUOTE",
      "and", "BACKQUOTE", "secret_key", "BACKQUOTE">>

\* C8: constructing with an api_key and neither secret_key nor oauth_token
\* raises a ValueError whose message matches the pattern of the test, "You
\* must provide both the api_key and secret_key" with both names in
\* backquotes.
C8_LoneApiKeyMessage ==
    (/\ ctor.called
     /\ Truthy(ctor.api_key) /\ ~Truthy(ctor.secret_key) /\ ~Truthy(ctor.oauth_token)) =>
        /\ ctor.result.raised
        /\ ctor.result.type = "ValueError"
        /\ Matches(TestPatternBothKeys, ctor.result.msg)

\* C9: constructing with an oauth_token together with an api_key or a
\* secret_key raises the ValueError "Either an oauth_token or an api_key may
\* be supplied, but not both", and leaves no client.
C9_OAuthWithKeyRejected ==
    (/\ ctor.called
     /\ Truthy(ctor.oauth_token)
     /\ (Truthy(ctor.api_key) \/ Truthy(ctor.secret_key))) =>
        /\ ctor.result.raised
        /\ ctor.result.type = "ValueError"
        /\ ctor.result.msg = TestPatternNotBoth
        /\ Matches(TestPatternNotBoth, ctor.result.msg)
        /\ ~client.constructed

C9_Witness ==
    /\ ctor.called /\ ctor.result.raised
    /\ Truthy(ctor.oauth_token) /\ Truthy(ctor.secret_key) /\ ~Truthy(ctor.api_key)

\* C10: constructing with no explicit api_key, secret_key or oauth_token
\* succeeds with the environment credentials when the environment holds a
\* valid set, and fails only when the environment supplies none either.
C10_EnvironmentFallback ==
    (/\ ctor.called
     /\ ctor.api_key = None /\ ctor.secret_key = None /\ ctor.oauth_token = None
     /\ ValidCombination(env.api_key, env.secret_key, env.oauth_token)) =>
        /\ ~ctor.result.raised
        /\ client.constructed
        /\ client._api_key = env.api_key
        /\ client._secret_key = env.secret_key
        /\ client._oauth_token = env.oauth_token

(***************************************************************************)
(* Properties of the retry loop, step by step                              *)
(***************************************************************************)
InFlight == call.pc \in {"attempting", "sleeping", "decrementing"}
LastEvent(c) == c.events[Len(c.events)]

\* C21: on a client with retry_attempts >= 0 the counter of a dispatch is
\* always within 0..retry_attempts; a dispatch starts with the counter at
\* retry_attempts; the counter changes only in the decrement, by exactly 1,
\* and the decrement comes after the wait that followed an exchange
\* answered with a retryable status while attempts remained, and leads to
\* the next exchange.
C21_CounterDiscipline ==
    /\ []((client.constructed /\ client._retry >= 0 /\ call.pc # "idle") =>
              call.retry \in 0..client._retry)
    /\ [][(client.constructed /\ client._retry >= 0 /\ call' # call) =>
            /\ call.pc \in {"idle", "done"} =>
                   (call'.retry = client._retry /\ call'.pc = "attempting")
            /\ (InFlight /\ call'.retry # call.retry) =>
                   /\ call.pc = "decrementing"
                   /\ call'.retry = call.retry - 1
                   /\ LastEvent(call) = "sleep"
                   /\ call.events[Len(call.events) - 1] = "exchange"
                   /\ AnsweredRetryable(client, call.last)
                   /\ call.retry > 0
                   /\ call'.pc = "attempting"
                   /\ call'.events = call.events
            /\ call.pc = "sleeping" =>
                   (call'.pc = "decrementing" /\ LastEvent(call) = "exchange")
            /\ call.pc = "decrementing" => call'.retry = call.retry - 1]_vars

\* A dispatch on a client with retry_attempts = 3 is about to make its
\* third exchange, two waits and two decrements behind it.
C21_Witness ==
    /\ client.constructed /\ client._retry = 3
    /\ call.pc = "attempting" /\ call.retry = 1
    /\ call.events = <<"exchange", "sleep", "exchange", "sleep">>

(***************************************************************************)
(* rest.py _get_auth_headers as a function of the attributes it reads      *)
(***************************************************************************)
\* The header construction reads self._oauth_token, self._use_basic_auth,
\* self._api_key and self._secret_key and nothing else: every value the
\* four attributes can hold, those the constructor rejects included.
AttributeStates ==
    {Store(<<a, s, o>>, b, n, 3, <<429, 504>>) :
        a \in ApiKeyValues, s \in SecretKeyValues, o \in OAuthTokenValues,
        b \in BOOLEAN, n \in 0..MaxRequestRetry}

InitHeaders ==
    /\ env = [api_key |-> None, secret_key |-> None, oauth_token |-> None]
    /\ ctor = NotCalled
    /\ client \in AttributeStates
    /\ settings = NotLoaded
    /\ call = IdleCall
    /\ other = IdleCall
    /\ err = NoError
    /\ pag = NoPagination

NextHeaders ==
    \/ \E m \in DefaultMethods, d \in DefaultPayloads : Request(m, d)
    \/ \E response \in RequestResponses : Exchange(response)
    \/ Sleep
    \/ Decrement

SpecHeaders == InitHeaders /\ [][NextHeaders]_vars

\* No oauth token, basic auth off, and not both of api_key and secret_key.
NoSchemeAvailable(self) ==
    /\ ~Truthy(self._oauth_token)
    /\ ~self._use_basic_auth
    /\ ~(Truthy(self._api_key) /\ Truthy(self._secret_key))

\* The header values built from a missing (None or empty) key or secret.
FromMissing ==
    {None, "", "Basic " \o b64encode("None:None"), "Basic " \o b64encode("None:"),
     "Basic " \o b64encode(":None"), "Basic " \o b64encode(":"),
     "Basic " \o b64encode("test:None"), "Basic " \o b64encode("test:"),
     "Basic " \o b64encode("None:secret"), "Basic " \o b64encode(":secret")}

AuthHeaderNames == {"Authorization", "APCA-API-KEY-ID", "APCA-API-SECRET-KEY"}

BuiltFromMissing(h) ==
    \E name \in DOMAIN h \cap AuthHeaderNames : h[name] \in FromMissing

MaxFairRetry == 2

FairRetryAttempts == (-1)..MaxFairRetry
FairResponses ==
    [status_code : {200, 404, 429, 504},
     body : {EmptyBody,
             JsonBody([type |-> "dict", keys |-> ErrorBodyFields, well_typed |-> TRUE])}]

\* Session.request returns with some response of the server.
AnyExchange == \E response \in FairResponses : Exchange(response)

NextFair ==
    \/ \E n \in FairRetryAttempts, codes \in RetryCodes : Construct("test", "secret", None, FALSE, n, 3, codes)
    \/ \E m \in DefaultMethods, d \in DefaultPayloads : Request(m, d)
    \/ AnyExchange
    \/ Sleep
    \/ Decrement

\* The thread of a dispatch is not suspended for ever: the request it sent
\* is answered, time.sleep returns, and the statement after it runs.
SpecFair ==
    /\ InitRequest
    /\ [][NextFair]_vars
    /\ WF_vars(AnyExchange)
    /\ WF_vars(Sleep)
    /\ WF_vars(Decrement)

Max0(n) == IF n >= 0 THEN n ELSE 0

\* C23: a dispatch never makes more than max(retry_attempts, 0) + 1
\* exchanges nor more than max(retry_attempts, 0) waits, and every dispatch
\* that has started comes to its end with a value returned or an error
\* raised, whatever the responses.
C23_DispatchTerminates ==
    /\ []((client.constructed /\ call.pc # "idle") =>
             /\ call.exchanges <= Max0(client._retry) + 1
             /\ call.waits <= Max0(client._retry))
    /\ (call.pc \in {"attempting", "sleeping", "decrementing"}) ~>
           (call.pc = "done" /\ call.result # Pending)

\* A dispatch has ended after the largest number of exchanges and waits.
C23_Witness ==
    /\ client.constructed /\ client._retry = 2
    /\ call.pc = "done" /\ call.result # Pending
    /\ call.exchanges = 3 /\ call.waits = 2

(***************************************************************************)
(* Properties of the retry configuration                                   *)
(***************************************************************************)
\* C24: the client holds the retry_attempts its constructor was given,
\* negative values included; a dispatch on a client with negative
\* retry_attempts ends at once with no exchange and no wait, returning
\* None; a finished dispatch has made an exchange exactly when
\* retry_attempts >= 0, and with retry_attempts = 0 exactly one exchange
\* and no wait.
C24_NegativeAttempts ==
    client.constructed =>
        /\ client._retry = ctor.retry_attempts
        /\ (call.pc # "idle" /\ ctor.retry_attempts < 0) =>
              /\ Done
              /\ call.exchanges = 0
              /\ call.waits = 0
              /\ call.sent = <<>>
              /\ ReturnedNone
        /\ Done => (call.exchanges >= 1 <=> ctor.retry_attempts >= 0)
        /\ (Done /\ ctor.retry_attempts = 0) =>
              (call.exchanges = 1 /\ call.waits = 0)

\* A dispatch on a client constructed with retry_attempts = -1 has ended.
C24_Witness ==
    /\ client.constructed /\ ctor.retry_attempts = -1 /\ client._retry = -1
    /\ Done /\ call.exchanges = 0 /\ ReturnedNone

CountOf(events, e) == Cardinality({i \in DOMAIN events : events[i] = e})

\* C25: in a dispatch every wait stands between two exchanges: it follows
\* an exchange, and the dispatch goes on from it to the decrement and the
\* next attempt, never to its end; a dispatch that has ended after at least
\* one exchange ended on an exchange, with one wait less than exchanges.
C25_WaitThenExchange ==
    call.pc # "idle" =>
        /\ call.waits = CountOf(call.events, "sleep")
        /\ call.exchanges = CountOf(call.events, "exchange")
        /\ \A i \in DOMAIN call.events :
              call.events[i] = "sleep" =>
                  /\ i > 1 /\ call.events[i - 1] = "exchange"
                  /\ IF i < Len(call.events)
                     THEN call.events[i + 1] = "exchange"
                     ELSE call.pc \in {"decrementing", "attempting"}
        /\ (Done /\ call.exchanges >= 1) =>
              /\ LastEvent(call) = "exchange"
              /\ call.waits = call.exchanges - 1

\* A dispatch with attempts to spare has ended on its third exchange, a
\* wait before it and none after.
C25_Witness ==
    /\ client.constructed /\ client._retry = 3
    /\ Done /\ call.events = <<"exchange", "sleep", "exchange", "sleep", "exchange">>
    /\ call.waits = 2

\* A 4xx/5xx answer whose status is not in the client's retry codes.
AnsweredFatal(self, response) ==
    /\ response.status_code \in 400..599
    /\ response.status_code \notin Range(self._retry_codes)

\* C26: a dispatch whose k >= 1 first exchanges were retried (each followed
\* by a wait), with attempts still left, and whose next answer is an error
\* with a status outside the retry codes, ends on that answer after k + 1
\* exchanges, the attempts left unused, raising APIError with the status
\* of that last answer.
C26_FatalAfterRetries ==
    (/\ client.constructed
     /\ call.exchanges >= 2
     /\ call.waits = call.exchanges - 1
     /\ AnsweredFatal(client, call.last)) =>
        /\ Done
        /\ call.retry = client._retry - call.waits
        /\ call.retry >= 0
        /\ LastEvent(call) = "exchange"
        /\ call.result.raised
        /\ call.result.type = "APIError"
        /\ call.result.status_code = call.last.status_code

Orders ==
    {order \in [DOMAIN _models -> DOMAIN _models] :
        \A i, j \in DOMAIN _models : i # j => order[i] # order[j]}

\* The loop of APIError.body over the models taken in the given order: the
\* name of the first model whose field set is the key set, "dict" when
\* there is none.
FirstMatch(order, keys) ==
    LET matching == {i \in DOMAIN order : _models[order[i]].model_fields = keys}
    IN IF matching = {} THEN "dict"
       ELSE _models[order[CHOOSE i \in matching : \A j \in matching : i <= j]].name

\* C28: the field sets of the three models are pairwise different; the key
\* set of a payload is the field set of at most one model; and the body
\* read from an error is the one the loop gives in every order of the
\* models.
C28_VariantsDisjoint ==
    /\ \A i, j \in DOMAIN _models :
          i # j => _models[i].model_fields # _models[j].model_fields
    /\ BodyRead =>
          /\ Cardinality({i \in DOMAIN _models : _models[i].model_fields = Payload.keys}) <= 1
          /\ \A order \in Orders :
                /\ FirstMatch(order, Payload.keys) = FirstMatch([i \in DOMAIN _models |-> i], Payload.keys)
                /\ Payload.well_typed => err.body.value.model = FirstMatch(order, Payload.keys)

\* A payload with the keys of the buying power model has been read as that
\* model, the generic model tried before it.
C28_Witness ==
    /\ BodyRead
    /\ Payload.keys = {"code", "message", "buying_power", "cost_basis"}
    /\ Payload.well_typed
    /\ err.body.value.model = "BuyingPowerErrorBody"

(***************************************************************************)
(* Pagination on a source without pages, and the two copies compared       *)
(***************************************************************************)
\* C29: on a source with no page, FULL returns the empty list, ITERATOR
\* returns the iterator, from which the caller obtains no page, and NONE
\* returns nothing: the StopIteration of its next() call is raised.
C29_EmptySource ==
    (Materialized /\ pag.pages = <<>>) =>
        CASE pag.mode = FULL ->
                 /\ pag.pc = "returned"
                 /\ pag.result = ReturnedList(<<>>)
          [] pag.mode = ITERATOR ->
                 /\ pag.pc = "returned"
                 /\ pag.result = ReturnedIterator
                 /\ pag.pulls_at_return = 0
                 /\ pag.obtained = <<>>
          [] pag.mode = NONE ->
                 /\ pag.pc = "raised"
                 /\ pag.result = Raised("StopIteration")
                 /\ pag.iterator.exhausted

\* NONE on the empty source has raised StopIteration.
C29_Witness ==
    /\ pag.pc = "raised"
    /\ pag.pages = <<>>
    /\ pag.mode = NONE
    /\ pag.result.type = "StopIteration"

\* The validation and the materialization as the given copy does them.
ValidateWith(copy, max_items_limit, handle_pagination) ==
    IF copy = "RestClient"
    THEN _validate_pagination(max_items_limit, handle_pagination)
    ELSE validate_pagination(max_items_limit, handle_pagination)

MaterializeWith(copy, pages, it, handle_pagination) ==
    IF copy = "RestClient"
    THEN _return_paginated_result(pages, it, handle_pagination)
    ELSE return_paginated_result(pages, it, handle_pagination)

\* C30: on the arguments of every paginated call the two copies of the
\* validation give the same mode or the same error, and on its pages, with
\* the iterator at any point and every mode (None included), the two
\* copies of the materialization give the same result and leave the
\* iterator with the same number of pulls; what the call got from the copy
\* it used is what the other copy gives.
C30_CopiesAgree ==
    pag.pc # "idle" =>
        /\ _validate_pagination(pag.max_items_limit, pag.handle_pagination)
              = validate_pagination(pag.max_items_limit, pag.handle_pagination)
        /\ \A mode \in HandlePaginations :
              _return_paginated_result(pag.pages, pag.iterator, mode)
                 = return_paginated_result(pag.pages, pag.iterator, mode)
        /\ \A copy \in Copies :
              LET v == ValidateWith(copy, pag.max_items_limit, pag.handle_pagination)
              IN /\ pag.pc = "rejected" => (v.raised /\ pag.result = v)
                 /\ Validated => (~v.raised /\ pag.mode = v.value)
                 /\ Materialized =>
                       LET r == MaterializeWith(copy, pag.pages, FreshIterator, pag.mode)
                       IN /\ pag.result = r.result
                          /\ pag.pulls_at_return = r.iterator.pulls

\* A FULL call through pagination.py returned the list RestClient's copy
\* gives for the same pages.
C30_Witness ==
    /\ pag.pc = "returned"
    /\ pag.copy = "pagination"
    /\ pag.mode = FULL
    /\ pag.pages = PagesOf(<<2, 3, 1>>)
    /\ pag.result = _return_paginated_result(pag.pages, FreshIterator, FULL).result

====
